---- MODULE Spec2Model ----
(***************************************************************************)
(* A model of web_scraper.py: the paginated crawl of scrape_michelin_data, *)
(* the listing-page scrape of _scrape_results_single_page, the detail-page *)
(* scrape of _scrape_restaurant_page and the field extractors.             *)
(*                                                                         *)
(* Text is a sequence of characters, each a string, so that the string     *)
(* operations of the code (split, strip, re.sub) are computed.  The site   *)
(* is static during a run: what a URL serves is fixed the first time the   *)
(* crawl reads it (variable site) and served again on a later fetch.       *)
(***************************************************************************)
EXTENDS Integers, Sequences, FiniteSets, TLC

VARIABLES
    site,                     \* what the crawl has read of the site: URL -> listing page
    start_url,                \* the argument of scrape_michelin_data
    pc,                       \* where the run is: loop, cards, next, check, sleep, done, raised
    current_url,              \* scrape_michelin_data: current_url
    page_count,               \* scrape_michelin_data: page_count
    all_restaurants_list,     \* scrape_michelin_data: all_restaurants_list
    restaurant_list_on_page,  \* scrape_michelin_data: first result of the page scrape
    next_url,                 \* scrape_michelin_data: second result of the page scrape
    restaurant_data,          \* _scrape_results_single_page: restaurant_data
    idx,                      \* _scrape_results_single_page: position of `card` in restaurant_cards
    fault,                    \* the exception that left scrape_michelin_data, or "none"
    events,                   \* the run's trace: fetches, skipped cards, sleeps, final prints
    rating_arg,               \* the argument of a call of _parse_rating on its own
    rating_out                \* its result

vars == <<site, start_url, pc, current_url, page_count, all_restaurants_list,
          restaurant_list_on_page, next_url, restaurant_data, idx, fault, events,
          rating_arg, rating_out>>

crawl_vars == <<site, start_url, pc, current_url, page_count, all_restaurants_list,
                restaurant_list_on_page, next_url, restaurant_data, idx, fault, events>>

-----------------------------------------------------------------------------
(* Bounds of the model. *)

\* The longest trace of fetches, skips and sleeps a run is followed for.
MaxEvents == 7

\* The longest sequence of award icons _parse_rating is applied to on its own.
MaxMarkers == 4

-----------------------------------------------------------------------------
(* Python values. *)

None == [k |-> "None"]

\* The outcome of an expression that may raise: a value or an exception.
Ok(v) == [ok |-> TRUE, val |-> v]

Raise(e) == [ok |-> FALSE, exc |-> e]

-----------------------------------------------------------------------------
(* Text operations. *)

Whitespace == {" ", "\n"}

\* The middle dot (U+00B7) that separates price and cuisine, as one character of a text.
MiddleDot == "middot"

RECURSIVE Split(_, _)
\* str.split(sep) for a one-character separator: the segments between separators.
Split(text, sep) ==
    IF \A i \in 1..Len(text) : text[i] # sep
    THEN <<text>>
    ELSE LET i == CHOOSE j \in 1..Len(text) :
                      text[j] = sep /\ \A m \in 1..(j - 1) : text[m] # sep
         IN  <<SubSeq(text, 1, i - 1)>> \o Split(SubSeq(text, i + 1, Len(text)), sep)

RECURSIVE Strip(_)
\* str.strip(): leading and trailing whitespace removed.
Strip(text) ==
    IF text = <<>> THEN <<>>
    ELSE IF Head(text) \in Whitespace THEN Strip(Tail(text))
    ELSE IF text[Len(text)] \in Whitespace THEN Strip(SubSeq(text, 1, Len(text) - 1))
    ELSE text

RECURSIVE CollapseWhitespace(_)
\* re.sub(r'\s+', ' ', text): every run of whitespace becomes one space.
CollapseWhitespace(text) ==
    IF text = <<>> THEN <<>>
    ELSE IF Head(text) \in Whitespace
         THEN IF Len(text) > 1 /\ text[2] \in Whitespace
              THEN CollapseWhitespace(Tail(text))
              ELSE <<" ">> \o CollapseWhitespace(Tail(text))
         ELSE <<Head(text)>> \o CollapseWhitespace(Tail(text))

\* str.replace(" ", "").
RemoveSpaces(text) == SelectSeq(text, LAMBDA c : c # " ")

-----------------------------------------------------------------------------
(* Field extractors. *)

RECURSIVE ScanIcons(_, _)
\* The loop of _parse_rating over img_list (lines 18-23): it returns at the first icon
\* whose src holds 'bib-gourmand' and else counts the icons whose src holds '1star'.
\* An icon's src is modelled by the set of the two patterns it contains.
ScanIcons(img_list, star_count) ==
    IF img_list = <<>> THEN [bib |-> FALSE, star_count |-> star_count]
    ELSE IF "bib-gourmand" \in Head(img_list) THEN [bib |-> TRUE, star_count |-> star_count]
    ELSE IF "1star" \in Head(img_list) THEN ScanIcons(Tail(img_list), star_count + 1)
    ELSE ScanIcons(Tail(img_list), star_count)

\* A mutant of ParseRating: the bib icon is looked for only when no star was counted
\* before it.
ParseRatingStarsFirst(rating_span) ==
    IF rating_span = None THEN "No Rating"
    ELSE LET r == ScanIcons(rating_span.imgs, 0)
         IN  IF r.bib /\ r.star_count = 0 THEN "Bib Gourmand"
             ELSE CASE r.star_count = 1 -> "1 Star"
                    [] r.star_count = 2 -> "2 Stars"
                    [] r.star_count = 3 -> "3 Stars"
                    [] OTHER -> "No Rating"

\* _parse_rating(rating_span); rating_span is None or holds the sequence imgs of its
\* award icons.
ParseRating(rating_span) ==
    IF rating_span = None THEN "No Rating"
    ELSE LET r == ScanIcons(rating_span.imgs, 0)
         IN  IF r.bib THEN "Bib Gourmand"
             ELSE CASE r.star_count = 1 -> "1 Star"
                    [] r.star_count = 2 -> "2 Stars"
                    [] r.star_count = 3 -> "3 Stars"
                    [] OTHER -> "No Rating"

\* _parse_price_cuisine(footer): the first two segments of the footer text around
\* the middle dot, whitespace removed; IndexError when there is no second segment.
ParsePriceCuisine(raw_text) ==
    LET cleaned_text == Split(RemoveSpaces(Strip(CollapseWhitespace(raw_text))), MiddleDot)
    IN  IF Len(cleaned_text) < 2 THEN Raise("IndexError")
        ELSE Ok(<<cleaned_text[1], cleaned_text[2]>>)

\* The texts float() accepts, among those the model's pages hold.
NumericTexts == {<<"3", "5">>, <<"1", "3", "5">>}

\* A Python string where a value of another type may stand (None, a float).
Str(text) == [str |-> text]

\* float(text): the number, modelled by its decimal text, or ValueError.
Float(text) == IF text \in NumericTexts THEN Ok([float |-> text]) ELSE Raise("ValueError")

\* _scrape_gm_iframe_url(url): the url is modelled by query_params, the dictionary
\* parse_qs makes of its query, from parameter names to the text of their first value.
ScrapeGmIframeUrl(query_params) ==
    IF "q" \in DOMAIN query_params
    THEN LET lat_lon == Split(query_params["q"], ",")
         IN  IF ~Float(lat_lon[1]).ok THEN Float(lat_lon[1])
             ELSE IF Len(lat_lon) < 2 THEN Raise("IndexError")
             ELSE IF ~Float(lat_lon[2]).ok THEN Float(lat_lon[2])
             ELSE Ok([latitude |-> Float(lat_lon[1]).val, longitude |-> Float(lat_lon[2]).val])
    ELSE Ok([latitude |-> Str(<<>>), longitude |-> Str(<<>>)])

-----------------------------------------------------------------------------
(* The detail page. *)

\* tag.get_text(strip=True) if tag else "".
TextOf(tag) == IF tag = None THEN <<>> ELSE Strip(tag.str)

\* tag['href'] if tag else "".
HrefOf(tag) == IF tag = None THEN <<>> ELSE tag.str

\* The dictionary _scrape_restaurant_page returns when the fetch fails (lines 68-73).
FailedPageData ==
    [Address |-> <<>>, Description |-> <<>>, Coordinates |-> <<>>]
        @@ ("Website URL" :> <<>>)

\* _scrape_restaurant_page(url, headers), given what the url serves: the dictionary of
\* the page's fields, or the exception an extraction raises.
ScrapeRestaurantPage(page) ==
    IF ~page.ok THEN Ok(FailedPageData)
    ELSE LET tel == IF page.tel_tag = None THEN <<<<>>, <<>>>>
                    ELSE Split(page.tel_tag.str, ":")
             iframes == page.iframes
         IN  IF Len(tel) < 2 THEN Raise("IndexError")
             ELSE IF Len(iframes) < 2 THEN Raise("IndexError")
             ELSE IF ~ScrapeGmIframeUrl(iframes[2]).ok THEN ScrapeGmIframeUrl(iframes[2])
             ELSE Ok([Address |-> TextOf(page.address_tag),
                      Description |-> TextOf(page.description_tag),
                      Latitude |-> ScrapeGmIframeUrl(iframes[2]).val.latitude,
                      Longitude |-> ScrapeGmIframeUrl(iframes[2]).val.longitude]
                     @@ ("Restaurant Website" :> HrefOf(page.website_tag))
                     @@ ("Telephone Number" :> tel[2])
                     @@ ("Reservation Link" :> HrefOf(page.book_tag)))

-----------------------------------------------------------------------------
(* URLs and the pagination control. *)

Paths == {"kyoto", "osaka"}

Queries == {"", "page=2"}

\* A listing URL https://guide.michelin.com/<path>[?<query>].
URLs == [path : Paths, query : Queries]

\* The start URLs of the model's runs: with or without a query.  The two paths are
\* interchangeable, so one of them stands for both.
StartURLs == {u \in URLs : u.path = "kyoto"}

HrefEmpty == [k |-> "empty"]                    \* href=""

HrefHash == [k |-> "hash"]                      \* href="#"

AbsRef(u) == [k |-> "abs", url |-> u]           \* href="https://guide.michelin.com/..."

QueryRef(q) == [k |-> "query", query |-> q]     \* href="?page=2"

PathRef(p) == [k |-> "path", path |-> p]        \* href="osaka"

\* The href attributes of the model's pagination links; None: no href attribute.
Hrefs ==
    {None, HrefEmpty, HrefHash} \cup {AbsRef(u) : u \in URLs}
        \cup {QueryRef(q) : q \in Queries \ {""}} \cup {PathRef(p) : p \in Paths}

\* urllib.parse.urljoin(base, href): an absolute reference replaces the base, a query
\* reference keeps the base's path, a relative path replaces the base's last segment
\* and drops its query; an empty reference and "#" give the base.
urljoin(base, href) ==
    CASE href.k = "abs"   -> href.url
      [] href.k = "query" -> [path |-> base.path, query |-> href.query]
      [] href.k = "path"  -> [path |-> href.path, query |-> ""]
      [] OTHER            -> base

\* A link of ul.pagination; arrow: it holds an i.fa-angle-right icon.
Link(arrow, href) == [arrow |-> arrow, href |-> href]

\* The pagination controls of the model's listing pages: none; a numbered link and
\* then the arrow link, for every href; two arrow links; no arrow link.
Paginations ==
    {<<>>, <<Link(FALSE, HrefHash)>>}
        \cup {<<Link(FALSE, PathRef("kyoto")), Link(TRUE, h)>> : h \in Hrefs}
        \cup {<<Link(TRUE, HrefHash), Link(TRUE, PathRef(p))>> : p \in Paths}

\* A mutant of NextPageUrl: the resolved URL is not compared with the page's own.
NextPageUrlNoSelfCheck(url, pagination_links) ==
    LET arrows == {i \in 1..Len(pagination_links) : pagination_links[i].arrow}
    IN  IF arrows = {} THEN None
        ELSE LET relative_link ==
                     pagination_links[CHOOSE i \in arrows : \A j \in arrows : i <= j].href
             IN  IF relative_link \notin {None, HrefEmpty, HrefHash}
                 THEN urljoin(url, relative_link)
                 ELSE None

\* Lines 181-203 of _scrape_results_single_page: next_page_url, from the first
\* pagination link that holds the arrow icon.
NextPageUrl(url, pagination_links) ==
    LET arrows == {i \in 1..Len(pagination_links) : pagination_links[i].arrow}
    IN  IF arrows = {} THEN None
        ELSE LET relative_link ==
                     pagination_links[CHOOSE i \in arrows : \A j \in arrows : i <= j].href
             IN  IF relative_link # None /\ relative_link # HrefEmpty
                    /\ relative_link # HrefHash
                 THEN IF urljoin(url, relative_link) # url
                      THEN urljoin(url, relative_link)
                      ELSE None
                 ELSE None

-----------------------------------------------------------------------------
(* Listing cards. *)

\* The names line 145 filters out.
ExcludedNames == {"La'Shukran", "Café Riggs", "Xiquet", "Rooster & Owl"}

\* A detail page that was fetched, with the query dictionaries of its iframes' src.
DetailPage(iframes) ==
    [ok |-> TRUE, address_tag |-> Str(<<" ", "A", "\n">>), description_tag |-> None,
     website_tag |-> Str(<<"w">>), tel_tag |-> Str(<<"t", "e", "l", ":", "7">>),
     book_tag |-> None, iframes |-> iframes]

\* A detail page whose fetch fails (timeout, connection error, status not 2xx).
DetailDown ==
    [ok |-> FALSE, address_tag |-> None, description_tag |-> None, website_tag |-> None,
     tel_tag |-> None, book_tag |-> None, iframes |-> <<>>]

GoodFooters == << <<" ", "K", "\n">>, <<"\n", " ", "$", "$", " ", MiddleDot, " ", "J", "\n">> >>

Coords == [q |-> <<"3", "5", ",", "1", "3", "5">>]      \* ...?q=35,135

Video == [v |-> <<"1">>]                                \* an iframe that is no map

Card(name, footers, imgs, href, detail) ==
    [name |-> name, footers |-> footers, rating_span |-> [imgs |-> imgs], href |-> href,
     detail |-> detail]

\* The cards of the model's listing pages: one excluded name; two cards whose scrape
\* succeeds, with and without map coordinates; one per way a card's scrape raises.
Cards ==
    { Card("Xiquet", GoodFooters, <<>>, "/x", DetailPage(<<Video, Coords>>)),
      Card("Able", GoodFooters, <<{"1star"}, {"1star"}>>, "/a", DetailPage(<<Video, Coords>>)),
      Card("Baker", GoodFooters, <<{"bib-gourmand"}>>, "/b", DetailPage(<<Video, Video>>)),
      Card("Cork", << <<"K">>, <<"$", "$", " ", "J">> >>, <<>>, "/c",
           DetailPage(<<Video, Coords>>)),
      Card("Dill", GoodFooters, <<{"1star"}>>, "/d", DetailDown),
      Card("Elm", GoodFooters, <<>>, "/e", DetailPage(<<Coords>>)),
      Card("Fig", GoodFooters, <<>>, "/f",
           DetailPage(<<Video, [q |-> <<"a", "b", ",", "c", "d">>]>>)) }

\* Lines 151-154: city, price and cuisine of a card, or IndexError.
ParseFooter(footer) ==
    IF Len(footer) < 2 THEN Raise("IndexError")
    ELSE IF ~ParsePriceCuisine(footer[2]).ok THEN ParsePriceCuisine(footer[2])
    ELSE Ok([city |-> Strip(footer[1]),
             price |-> ParsePriceCuisine(footer[2]).val[1],
             cuisine |-> ParsePriceCuisine(footer[2]).val[2]])

\* Lines 164-178: the dictionary appended for a card, or KeyError when
\* restaurant_page_data lacks a key that is read.
MakeRecord(name, rating, foot, restaurant_url, restaurant_page_data) ==
    LET missing == {"Description", "Address", "Latitude", "Longitude", "Restaurant Website",
                    "Telephone Number", "Reservation Link"} \ DOMAIN restaurant_page_data
    IN  IF missing # {} THEN Raise("KeyError")
        ELSE Ok([Name |-> name, Rating |-> rating, City |-> foot.city,
                 Cuisine |-> foot.cuisine,
                 Description |-> restaurant_page_data["Description"],
                 Address |-> restaurant_page_data["Address"],
                 Latitude |-> restaurant_page_data["Latitude"],
                 Longitude |-> restaurant_page_data["Longitude"]]
                @@ ("Price Range" :> foot.price)
                @@ ("Michelin Website" :> restaurant_url)
                @@ ("Restaurant Website" :> restaurant_page_data["Restaurant Website"])
                @@ ("Restaurant Telephone Number" :> restaurant_page_data["Telephone Number"])
                @@ ("Reservation Link" :> restaurant_page_data["Reservation Link"]))

\* Lines 148-178, the body of the loop for a card that is not skipped.  fetched: the
\* detail page was requested; out: the dictionary to append, or the exception.
ScrapeCardBody(card) ==
    LET foot == ParseFooter(card.footers)
        restaurant_url == <<"https://guide.michelin.com", card.href>>
        restaurant_page_data == ScrapeRestaurantPage(card.detail)
    IN  IF ~foot.ok THEN [fetched |-> FALSE, out |-> foot]
        ELSE IF ~restaurant_page_data.ok THEN [fetched |-> TRUE, out |-> restaurant_page_data]
        ELSE [fetched |-> TRUE,
              out |-> MakeRecord(card.name, ParseRating(card.rating_span), foot.val,
                                 restaurant_url, restaurant_page_data.val)]

-----------------------------------------------------------------------------
(* The site, as far as the run has read it. *)

\* A listing page whose fetch fails.
PageDown == [ok |-> FALSE, cards |-> <<>>, closed |-> TRUE, paged |-> TRUE, pagination |-> <<>>]

\* A fetched listing page of which nothing has been read yet.  cards: the
\* div.card__menu nodes read so far; closed: there is none after them; paged: the
\* pagination control has been read.
PageFetched == [ok |-> TRUE, cards |-> <<>>, closed |-> FALSE, paged |-> FALSE, pagination |-> <<>>]

\* What a fetch of url can answer: what it answered before, or anything.
Served(url) == IF url \in DOMAIN site THEN {site[url]} ELSE {PageDown, PageFetched}

\* The cards that can stand at position idx of the page at current_url.
CardsAt ==
    LET page == site[current_url]
    IN  IF idx <= Len(page.cards) THEN {page.cards[idx]}
        ELSE IF page.closed THEN {}
        ELSE Cards

\* The site once card is known to stand at position idx of the page at current_url.
WithCard(card) ==
    LET page == site[current_url]
    IN  IF idx <= Len(page.cards) THEN site
        ELSE [site EXCEPT ![current_url].cards = Append(page.cards, card)]

Event(t, what) == [t |-> t, what |-> what]

-----------------------------------------------------------------------------
(* The run of scrape_michelin_data(start_url). *)

Init ==
    /\ start_url \in StartURLs
    /\ site = << >>
    /\ pc = "loop"
    /\ current_url = start_url
    /\ page_count = 1
    /\ all_restaurants_list = <<>>
    /\ restaurant_list_on_page = <<>>
    /\ next_url = None
    /\ restaurant_data = <<>>
    /\ idx = 0
    /\ fault = "none"
    /\ events = <<>>
    /\ rating_arg = None
    /\ rating_out = "unused"

\* Lines 225-229 and 118-130: the loop condition holds and the listing page is
\* requested.  A failed fetch returns ([], None) at once (lines 126-128).
FetchListing ==
    /\ pc = "loop"
    /\ current_url # None
    /\ Len(events) < MaxEvents
    /\ \E page \in Served(current_url) :
          /\ site' = (current_url :> page) @@ site
          /\ events' = Append(events, Event("page", current_url))
          /\ restaurant_data' = <<>>
          /\ idx' = 1
          /\ IF page.ok
             THEN /\ pc' = "cards"
                  /\ UNCHANGED <<restaurant_list_on_page, next_url>>
             ELSE /\ pc' = "check"
                  /\ restaurant_list_on_page' = <<>>
                  /\ next_url' = None
    /\ UNCHANGED <<start_url, current_url, page_count, all_restaurants_list, fault,
                   rating_arg, rating_out>>

\* Lines 139-146: the card's name is in the exclusion list and the card is skipped.
SkipCard ==
    /\ pc = "cards"
    /\ Len(events) < MaxEvents
    /\ \E card \in CardsAt :
          /\ card.name \in ExcludedNames
          /\ site' = WithCard(card)
          /\ events' = Append(events, Event("skip", card.name))
    /\ idx' = idx + 1
    /\ UNCHANGED <<start_url, pc, current_url, page_count, all_restaurants_list,
                   restaurant_list_on_page, next_url, restaurant_data, fault,
                   rating_arg, rating_out>>

\* Lines 139-178: the card is scraped, its detail page fetched, its dictionary appended.
ScrapeCard ==
    /\ pc = "cards"
    /\ Len(events) < MaxEvents
    /\ \E card \in CardsAt :
          /\ card.name \notin ExcludedNames
          /\ ScrapeCardBody(card).out.ok
          /\ site' = WithCard(card)
          /\ events' = Append(events, Event("detail", card.href))
          /\ restaurant_data' = Append(restaurant_data, ScrapeCardBody(card).out.val)
    /\ idx' = idx + 1
    /\ UNCHANGED <<start_url, pc, current_url, page_count, all_restaurants_list,
                   restaurant_list_on_page, next_url, fault, rating_arg, rating_out>>

\* Lines 139-178: scraping the card raises; nothing catches the exception, which
\* leaves _scrape_results_single_page and scrape_michelin_data.
CardRaises ==
    /\ pc = "cards"
    /\ Len(events) < MaxEvents
    /\ \E card \in CardsAt :
          /\ card.name \notin ExcludedNames
          /\ ~ScrapeCardBody(card).out.ok
          /\ site' = WithCard(card)
          /\ events' = IF ScrapeCardBody(card).fetched
                       THEN Append(events, Event("detail", card.href))
                       ELSE events
          /\ fault' = ScrapeCardBody(card).out.exc
    /\ pc' = "raised"
    /\ UNCHANGED <<start_url, current_url, page_count, all_restaurants_list,
                   restaurant_list_on_page, next_url, restaurant_data, idx,
                   rating_arg, rating_out>>

\* Line 139: the loop over restaurant_cards is exhausted.
EndCards ==
    /\ pc = "cards"
    /\ idx > Len(site[current_url].cards)
    /\ site' = [site EXCEPT ![current_url].closed = TRUE]
    /\ pc' = "next"
    /\ UNCHANGED <<start_url, current_url, page_count, all_restaurants_list,
                   restaurant_list_on_page, next_url, restaurant_data, idx, fault, events,
                   rating_arg, rating_out>>

\* Lines 180-203 and 229: the next-page URL is looked up and the page scrape returns.
FindNext ==
    /\ pc = "next"
    /\ \E pagination_links \in
              IF site[current_url].paged THEN {site[current_url].pagination}
              ELSE Paginations :
          /\ site' = [site EXCEPT ![current_url].paged = TRUE,
                                  ![current_url].pagination = pagination_links]
          /\ next_url' = NextPageUrl(current_url, pagination_links)
    /\ restaurant_list_on_page' = restaurant_data
    /\ pc' = "check"
    /\ UNCHANGED <<start_url, current_url, page_count, all_restaurants_list,
                   restaurant_data, idx, fault, events, rating_arg, rating_out>>

\* A mutant of BreakInitial: an empty first page is passed over when it carries a
\* next link.
BreakInitialFollowsNext ==
    /\ pc = "check"
    /\ restaurant_list_on_page = <<>>
    /\ page_count = 1
    /\ IF next_url # None
       THEN /\ current_url' = next_url
            /\ pc' = "sleep"
            /\ events' = events
       ELSE /\ current_url' = current_url
            /\ pc' = "done"
            /\ events' = Append(events, Event("print", "Initial page failed to extract data. Cannot continue."))
    /\ UNCHANGED <<site, start_url, page_count, all_restaurants_list,
                   restaurant_list_on_page, next_url, restaurant_data, idx, fault,
                   rating_arg, rating_out>>

\* Lines 231-233: nothing was extracted from the first page; break.
BreakInitial ==
    /\ pc = "check"
    /\ restaurant_list_on_page = <<>>
    /\ page_count = 1
    /\ events' = Append(events, Event("print", "Initial page failed to extract data. Cannot continue."))
    /\ pc' = "done"
    /\ UNCHANGED <<site, start_url, current_url, page_count, all_restaurants_list,
                   restaurant_list_on_page, next_url, restaurant_data, idx, fault,
                   rating_arg, rating_out>>

\* A mutant of BreakEmpty: an empty later page is passed over when it carries a next
\* link.
BreakEmptyFollowsNext ==
    /\ pc = "check"
    /\ restaurant_list_on_page = <<>>
    /\ page_count # 1
    /\ IF next_url # None
       THEN /\ current_url' = next_url
            /\ page_count' = page_count + 1
            /\ pc' = "sleep"
            /\ events' = events
       ELSE /\ current_url' = current_url
            /\ page_count' = page_count
            /\ pc' = "done"
            /\ events' = Append(events, Event("print", "Found no data on the last presumed page. Stopping."))
    /\ UNCHANGED <<site, start_url, all_restaurants_list,
                   restaurant_list_on_page, next_url, restaurant_data, idx, fault,
                   rating_arg, rating_out>>

\* Lines 234-237: nothing was extracted from a later page; break.
BreakEmpty ==
    /\ pc = "check"
    /\ restaurant_list_on_page = <<>>
    /\ page_count # 1
    /\ events' = Append(events, Event("print", "Found no data on the last presumed page. Stopping."))
    /\ pc' = "done"
    /\ UNCHANGED <<site, start_url, current_url, page_count, all_restaurants_list,
                   restaurant_list_on_page, next_url, restaurant_data, idx, fault,
                   rating_arg, rating_out>>

\* A mutant of Advance: the page's dictionaries are put before those of the earlier
\* pages.
AdvancePrepends ==
    /\ pc = "check"
    /\ restaurant_list_on_page # <<>>
    /\ all_restaurants_list' = restaurant_list_on_page \o all_restaurants_list
    /\ current_url' = next_url
    /\ page_count' = page_count + 1
    /\ pc' = IF next_url # None THEN "sleep" ELSE "loop"
    /\ UNCHANGED <<site, start_url, restaurant_list_on_page, next_url, restaurant_data,
                   idx, fault, events, rating_arg, rating_out>>

\* A mutant of Advance: the sleep does not depend on there being a next page.
AdvanceAlwaysSleeps ==
    /\ pc = "check"
    /\ restaurant_list_on_page # <<>>
    /\ all_restaurants_list' = all_restaurants_list \o restaurant_list_on_page
    /\ current_url' = next_url
    /\ page_count' = page_count + 1
    /\ pc' = "sleep"
    /\ UNCHANGED <<site, start_url, restaurant_list_on_page, next_url, restaurant_data,
                   idx, fault, events, rating_arg, rating_out>>

\* Lines 239-246: the page's dictionaries are appended and the loop advances.
Advance ==
    /\ pc = "check"
    /\ restaurant_list_on_page # <<>>
    /\ all_restaurants_list' = all_restaurants_list \o restaurant_list_on_page
    /\ current_url' = next_url
    /\ page_count' = page_count + 1
    /\ pc' = IF next_url # None THEN "sleep" ELSE "loop"
    /\ UNCHANGED <<site, start_url, restaurant_list_on_page, next_url, restaurant_data,
                   idx, fault, events, rating_arg, rating_out>>

\* Lines 246-248: time.sleep(2) before the next page.
Sleep ==
    /\ pc = "sleep"
    /\ Len(events) < MaxEvents
    /\ events' = Append(events, Event("sleep", "2"))
    /\ pc' = "loop"
    /\ UNCHANGED <<site, start_url, current_url, page_count, all_restaurants_list,
                   restaurant_list_on_page, next_url, restaurant_data, idx, fault,
                   rating_arg, rating_out>>

\* Lines 225 and 250-252: the loop condition fails and the data frame is returned.
Return ==
    /\ pc = "loop"
    /\ current_url = None
    /\ pc' = "done"
    /\ UNCHANGED <<site, start_url, current_url, page_count, all_restaurants_list,
                   restaurant_list_on_page, next_url, restaurant_data, idx, fault, events,
                   rating_arg, rating_out>>

Next ==
    \/ FetchListing
    \/ SkipCard
    \/ ScrapeCard
    \/ CardRaises
    \/ EndCards
    \/ FindNext
    \/ BreakInitial
    \/ BreakEmpty
    \/ Advance
    \/ Sleep
    \/ Return

Spec == Init /\ [][Next]_vars

-----------------------------------------------------------------------------
(* _parse_rating on its own: every sequence of award icons up to MaxMarkers. *)

\* What an award icon's src can hold of the two patterns 'bib-gourmand' and '1star'.
IconSrcs == SUBSET {"bib-gourmand", "1star"}

RatingSpans == {None} \cup {[imgs |-> s] : s \in UNION {[1..n -> IconSrcs] : n \in 0..MaxMarkers}}

RatingInit ==
    /\ rating_arg \in RatingSpans
    /\ rating_out = "pending"
    /\ start_url = [path |-> "kyoto", query |-> ""]
    /\ site = << >>
    /\ pc = "idle"
    /\ current_url = None
    /\ page_count = 1
    /\ all_restaurants_list = <<>>
    /\ restaurant_list_on_page = <<>>
    /\ next_url = None
    /\ restaurant_data = <<>>
    /\ idx = 0
    /\ fault = "none"
    /\ events = <<>>

\* rating = _parse_rating(rating_span), line 158.
CallParseRating ==
    /\ rating_out = "pending"
    /\ rating_out' = ParseRating(rating_arg)
    /\ UNCHANGED <<rating_arg, crawl_vars>>

RatingNext == CallParseRating

RatingSpec == RatingInit /\ [][RatingNext]_vars

-----------------------------------------------------------------------------
(* What a run has done, read from its trace. *)

\* The positions of the listing fetches in the trace.
PageFetches == {i \in 1..Len(events) : events[i].t = "page"}

\* The position of the last listing fetch (0: none yet).
LastFetch == IF PageFetches = {} THEN 0 ELSE CHOOSE i \in PageFetches : \A j \in PageFetches : j <= i

\* The listing URLs fetched, in order.
Visited ==
    LET pages == SelectSeq(events, LAMBDA e : e.t = "page")
    IN  [i \in 1..Len(pages) |-> pages[i].what]

Names(records) == [i \in 1..Len(records) |-> records[i].Name]

\* The names of a listing page's cards that are not in the exclusion list, in
\* document order.
KeptNames(url) ==
    LET kept == SelectSeq(site[url].cards, LAMBDA c : c.name \notin ExcludedNames)
    IN  [i \in 1..Len(kept) |-> kept[i].name]

RECURSIVE KeptNamesOfAll(_)
\* The same for a sequence of listing pages, page after page.
KeptNamesOfAll(urls) ==
    IF urls = <<>> THEN <<>>
    ELSE KeptNames(Head(urls)) \o KeptNamesOfAll(Tail(urls))

\* The href of the first link of the page's pagination control that holds the arrow.
HasArrow(url) == \E i \in 1..Len(site[url].pagination) : site[url].pagination[i].arrow

FirstArrowHref(url) ==
    LET links == site[url].pagination
    IN  links[CHOOSE i \in 1..Len(links) :
                  links[i].arrow /\ \A j \in 1..(i - 1) : ~links[j].arrow].href

\* The page's next link leads nowhere new: its href is empty, is "#", or resolves to
\* the page's own URL.
SelfReferential(url) ==
    /\ url \in DOMAIN site
    /\ site[url].ok /\ site[url].paged
    /\ HasArrow(url)
    /\ \/ FirstArrowHref(url) \in {HrefEmpty, HrefHash}
       \/ urljoin(url, FirstArrowHref(url)) = url

\* The cards the run has scraped so far (skipped ones aside).
ScrapedCards ==
    {c \in UNION {{site[u].cards[i] : i \in 1..Len(site[u].cards)} : u \in DOMAIN site} :
        c.name \notin ExcludedNames}

\* The dictionaries appended so far, in the page being scraped and in earlier pages.
Appended ==
    {restaurant_data[i] : i \in 1..Len(restaurant_data)}
        \cup {all_restaurants_list[i] : i \in 1..Len(all_restaurants_list)}

-----------------------------------------------------------------------------
(* The claims. *)

\* C1: on a site of finitely many listing pages every run leaves the pagination loop
\* and returns.  The site is static and the loop's course depends on current_url
\* alone (and on page_count being 1, which it is once), so a run that is back at the
\* head of the loop with a URL it has fetched scrapes the same pages again for ever,
\* and a run that never is fetches each URL at most once: the claim is that no run
\* is about to fetch a listing URL a second time.
C1_NoListingFetchedAgain ==
    (pc = "loop" /\ current_url # None)
        => \A i \in PageFetches : events[i].what # current_url

\* C2: a page whose first arrow link has an href that is empty, is "#" or resolves to
\* the page's own URL is scraped with no next URL (next_url is None when the scrape
\* returns), the controller then leaves the loop, and no listing page is fetched
\* after that page: every page fetched before the last one has a next link that
\* leads elsewhere.
C2_SelfLinkEndsCrawl ==
    /\ \A i \in PageFetches : i # LastFetch => ~SelfReferential(events[i].what)
    /\ (LastFetch # 0 /\ SelfReferential(events[LastFetch].what))
          => /\ pc \in {"check", "loop", "done"}
             /\ pc = "check" => next_url = None
             /\ pc = "loop" => current_url = None

\* C2, witness: a run has returned after a page with cards whose arrow link, a
\* non-empty reference, resolves to the page's own URL.
C2_Witness ==
    /\ pc = "done"
    /\ fault = "none"
    /\ all_restaurants_list # <<>>
    /\ LastFetch # 0
    /\ SelfReferential(events[LastFetch].what)
    /\ FirstArrowHref(events[LastFetch].what).k \in {"abs", "query", "path"}

\* C3: when a run returns, the returned sequence is, page after page in visiting
\* order, one dictionary per card whose name is not excluded, in document order.
C3_RecordsInPageThenCardOrder ==
    pc = "done" => Names(all_restaurants_list) = KeptNamesOfAll(Visited)

\* C3, witness: a run has returned from two pages, of which one held an excluded card
\* and two other cards of different names.
C3_Witness ==
    /\ pc = "done"
    /\ Len(Visited) = 2
    /\ Len(all_restaurants_list) = 3
    /\ all_restaurants_list[1].Name # all_restaurants_list[2].Name
    /\ \E i \in 1..Len(events) : events[i].t = "skip"

\* The scrape of the first page has returned nothing.
FirstPageEmpty ==
    pc \in {"check", "done"} /\ page_count = 1 /\ restaurant_list_on_page = <<>>

\* C4: when the scrape of the start URL returns no dictionary (the fetch failed, or
\* no card was kept), the run ends at once: nothing is returned, the start URL is the
\* only page fetched, no detail page was fetched, no exception was raised, and the
\* next step is the break of line 233.
C4_InitialPageEmpty ==
    /\ [](FirstPageEmpty =>
            /\ all_restaurants_list = <<>>
            /\ fault = "none"
            /\ Visited = <<start_url>>
            /\ \A i \in 1..Len(events) : events[i].t # "detail")
    /\ [][(FirstPageEmpty /\ pc = "check") =>
            /\ pc' = "done"
            /\ all_restaurants_list' = <<>>
            /\ Len(events') = Len(events) + 1
            /\ events'[Len(events')].t = "print"]_vars

\* C4, witness: a run has returned after the fetch of the start URL failed.
C4_Witness ==
    /\ pc = "done"
    /\ page_count = 1
    /\ ~site[start_url].ok

\* C5: when the fetch of a card's detail page fails, the card's dictionary is still
\* appended, with empty detail fields, and the run goes on.
C5_FailedDetailKeepsRecord ==
    \A c \in ScrapedCards :
        (ParseFooter(c.footers).ok /\ ~c.detail.ok)
            => /\ pc # "raised"
               /\ \E r \in Appended :
                     r.Name = c.name /\ r.Address = <<>> /\ r.Description = <<>>

\* C6: when a card's price/cuisine footer holds no middle dot, the card's dictionary
\* is still appended, with price and cuisine empty, and the run goes on.
C6_MalformedFooterKeepsRecord ==
    \A c \in ScrapedCards :
        (Len(c.footers) = 2 /\ \A i \in 1..Len(c.footers[2]) : c.footers[2][i] # MiddleDot)
            => /\ pc # "raised"
               /\ \E r \in Appended :
                     r.Name = c.name /\ r["Price Range"] = <<>> /\ r.Cuisine = <<>>

\* The text is made of digits.
IsNumeric(text) == text # <<>> /\ \A i \in 1..Len(text) : text[i] \in {"1", "3", "5"}

\* A fetched detail page that has no map coordinates to read: fewer than two
\* iframes, no q parameter in the second one's URL, or a q whose halves are not both
\* numbers.
NoCoordinates(detail) ==
    /\ detail.ok
    /\ \/ Len(detail.iframes) < 2
       \/ "q" \notin DOMAIN detail.iframes[2]
       \/ LET halves == Split(detail.iframes[2]["q"], ",")
          IN  Len(halves) # 2 \/ ~IsNumeric(halves[1]) \/ ~IsNumeric(halves[2])

\* C7: a fetched detail page with no map coordinates to read gives a dictionary with
\* latitude and longitude empty and the other fields extracted; the run goes on.
C7_NoCoordinatesKeepsRecord ==
    \A c \in ScrapedCards :
        (ParseFooter(c.footers).ok /\ NoCoordinates(c.detail))
            => /\ pc # "raised"
               /\ \E r \in Appended :
                     /\ r.Name = c.name
                     /\ r.Latitude = Str(<<>>) /\ r.Longitude = Str(<<>>)
                     /\ r.Address = TextOf(c.detail.address_tag)

\* The scrape of a page after the first has returned nothing.
LaterPageEmpty ==
    pc \in {"check", "done"} /\ page_count > 1 /\ restaurant_list_on_page = <<>>

\* C8: when the scrape of a page after the first returns no dictionary, the run ends
\* at that page with the dictionaries of the earlier pages, unchanged and in order,
\* and fetches no further listing page, whatever next link the page carried.
C8_LaterPageEmptyEndsCrawl ==
    /\ [](LaterPageEmpty =>
            /\ fault = "none"
            /\ Len(Visited) = page_count
            /\ Names(all_restaurants_list)
                  = KeptNamesOfAll(SubSeq(Visited, 1, Len(Visited) - 1)))
    /\ [][(LaterPageEmpty /\ pc = "check") =>
            /\ pc' = "done"
            /\ all_restaurants_list' = all_restaurants_list
            /\ Len(events') = Len(events) + 1
            /\ events'[Len(events')].t = "print"]_vars

\* C8, witness: a run has returned with the first page's dictionaries after a second
\* page that was fetched, held only excluded cards and carried a next link.
C8_Witness ==
    /\ pc = "done"
    /\ LaterPageEmpty
    /\ next_url # None
    /\ site[events[LastFetch].what].cards # <<>>
    /\ all_restaurants_list # <<>>

\* The rating the claim gives a sequence of award icons.
ClaimedRating(rating_span) ==
    IF rating_span = None THEN {"No Rating"}
    ELSE LET imgs == rating_span.imgs
             n == Cardinality({i \in 1..Len(imgs) : "1star" \in imgs[i]})
         IN  IF \E i \in 1..Len(imgs) : "bib-gourmand" \in imgs[i] THEN {"Bib Gourmand"}
             ELSE CASE n = 0 -> {"No Rating"}
                    [] n = 1 -> {"1 Star"}
                    [] n = 2 -> {"2 Stars"}
                    [] n = 3 -> {"3 Stars"}
                    [] OTHER -> {"No Rating", "1 Star", "2 Stars", "3 Stars", "Bib Gourmand"}

\* C9: _parse_rating returns Bib Gourmand when any icon matches the bib pattern,
\* wherever it stands; else No Rating, 1 Star, 2 Stars, 3 Stars for 0, 1, 2, 3
\* icons matching the one-star pattern; and No Rating without an icon container.
C9_RatingFromIcons ==
    rating_out # "pending" => rating_out \in ClaimedRating(rating_arg)

\* C9, witness: Bib Gourmand was returned for icons of which the first two are stars
\* and a later one the bib.
C9_Witness ==
    /\ rating_out = "Bib Gourmand"
    /\ rating_arg # None
    /\ Len(rating_arg.imgs) >= 3
    /\ rating_arg.imgs[1] = {"1star"}
    /\ rating_arg.imgs[2] = {"1star"}
    /\ rating_arg.imgs[Len(rating_arg.imgs)] = {"bib-gourmand"}

\* The detail pages fetched after the listing fetch at position i of the trace and
\* before the next sleep, listing fetch or print, in order.
DetailsAfter(i) ==
    LET stops == {j \in (i + 1)..Len(events) : events[j].t \notin {"detail", "skip"}}
        last  == IF stops = {} THEN Len(events)
                 ELSE (CHOOSE j \in stops : \A m \in stops : j <= m) - 1
        found == SelectSeq(SubSeq(events, i + 1, last), LAMBDA e : e.t = "detail")
    IN  [j \in 1..Len(found) |-> found[j].what]

\* The detail links of the first k cards of a listing page that are not excluded, in
\* document order.
KeptHrefs(url, k) ==
    LET kept == SelectSeq(SubSeq(site[url].cards, 1, k),
                          LAMBDA c : c.name \notin ExcludedNames)
    IN  [j \in 1..Len(kept) |-> kept[j].href]

\* C10: a run is strictly sequential.  After a listing fetch come the detail fetches
\* of its cards, one per card that is not excluded and in card order, before any
\* sleep (for the page being scraped: of the cards gone through; when a card's
\* scrape raised, with or without that card's fetch); every listing fetch but the
\* first comes right after a sleep; a sleep comes right after a page's cards and
\* right before the next listing fetch, so that there is exactly one between two
\* consecutive listing fetches and none after the last.
C10_StrictlySequential ==
    /\ \A i \in 1..Len(events) :
          /\ (events[i].t = "page" /\ i > 1) => events[i - 1].t = "sleep"
          /\ (events[i].t = "page" /\ i = 1) => events[i].what = start_url
          /\ events[i].t = "sleep" =>
                /\ i > 1 /\ events[i - 1].t \in {"detail", "skip"}
                /\ IF i < Len(events) THEN events[i + 1].t = "page"
                   ELSE pc = "loop" /\ current_url # None
          /\ events[i].t \in {"detail", "skip"} => i > 1 /\ events[i - 1].t # "sleep"
          /\ events[i].t = "page" =>
                LET url == events[i].what
                IN  IF i = LastFetch /\ pc = "cards"
                    THEN DetailsAfter(i) = KeptHrefs(url, idx - 1)
                    ELSE IF i = LastFetch /\ pc = "raised"
                    THEN DetailsAfter(i) \in {KeptHrefs(url, idx - 1), KeptHrefs(url, idx)}
                    ELSE DetailsAfter(i) = KeptHrefs(url, Len(site[url].cards))
    /\ pc \in {"done", "raised"} => (events = <<>> \/ events[Len(events)].t # "sleep")

\* C10, witness: a run has returned from two listing pages, with two detail fetches
\* after the first and a sleep between the two.
C10_Witness ==
    /\ pc = "done"
    /\ Len(Visited) = 2
    /\ \E i \in 1..Len(events) :
          /\ events[i].t = "detail" /\ events[i + 1].t = "detail"
          /\ events[i + 2].t = "sleep" /\ events[i + 3].t = "page"

====
